---- MODULE Spec2Model ----
(***************************************************************************)
(* Model of the boids simulation of src/src/main.rs: the four Update       *)
(* systems update_pos, update_velocity, boid_rules and avoid_edges, the    *)
(* UpdateVelocity event queue between them and the spatial index that      *)
(* boid_rules queries.                                                     *)
(*                                                                         *)
(* Numbers.  f32 vectors are modelled in fixed point: a vector is a record *)
(* [nan, x, y] of integers in world units (z is 0 throughout the program   *)
(* and is left out), every division truncates toward zero, and a vector    *)
(* whose components are NaN is the one value NaNVec (the program's only    *)
(* source of NaN, normalize() of the zero vector, makes all components NaN *)
(* at once).  A frame's delta time is a fraction [n, d] of a second.       *)
(***************************************************************************)
EXTENDS Integers, Sequences, FiniteSets, TLC

\* ------------------------------------------------------------------ bounds
NumBoids == 2
MaxTick == 2

\* ------------------------------------------------------- program constants
MAX_VELOCITY == 500
MIN_VELOCITY == 50
BORDER == 10
WindowWidth == 400
WindowHeight == 400

\* ----------------------------------------------------------- fixed point
Abs(a) == IF a < 0 THEN -a ELSE a
Max(a, b) == IF a >= b THEN a ELSE b
Min(a, b) == IF a <= b THEN a ELSE b
Sign(a) == IF a < 0 THEN -1 ELSE IF a > 0 THEN 1 ELSE 0

\* a / b on the lattice, truncated toward zero (b > 0)
TruncDiv(a, b) == Sign(a) * (Abs(a) \div b)
\* a / b on the lattice, rounded away from zero (b > 0)
AwayDiv(a, b) == Sign(a) * ((Abs(a) + b - 1) \div b)

RECURSIVE SqrtSearch(_, _, _)
SqrtSearch(n, lo, hi) ==
    IF lo >= hi THEN lo
    ELSE LET mid == (lo + hi + 1) \div 2
         IN  IF mid * mid <= n THEN SqrtSearch(n, mid, hi)
                               ELSE SqrtSearch(n, lo, mid - 1)
\* floor of the square root of n, 0 <= n < 2^30
FloorSqrt(n) == SqrtSearch(n, 0, 32767)
CeilSqrt(n) == LET r == FloorSqrt(n) IN IF r * r = n THEN r ELSE r + 1

\* ---------------------------------------------------------------- vectors
Vec(a, b) == [nan |-> FALSE, x |-> a, y |-> b]
ZERO == Vec(0, 0)
NaNVec == [nan |-> TRUE, x |-> 0, y |-> 0]

VAdd(a, b) == IF a.nan \/ b.nan THEN NaNVec ELSE Vec(a.x + b.x, a.y + b.y)
VSub(a, b) == IF a.nan \/ b.nan THEN NaNVec ELSE Vec(a.x - b.x, a.y - b.y)
\* v * n / d
VScale(v, n, d) ==
    IF v.nan THEN NaNVec ELSE Vec(TruncDiv(v.x * n, d), TruncDiv(v.y * n, d))
Dot(a, b) == a.x * b.x + a.y * b.y

\* a vector too long to square is first shrunk along its own direction
Shrink(v) ==
    LET k == (Max(Abs(v.x), Abs(v.y)) \div 1024) + 1
    IN  Vec(TruncDiv(v.x, k), TruncDiv(v.y, k))
LenSq(v) == v.x * v.x + v.y * v.y

\* v.length() > m and v.length() < m; every comparison with NaN is false
LengthGT(v, m) ==
    /\ ~v.nan
    /\ \/ Abs(v.x) > m
       \/ Abs(v.y) > m
       \/ LenSq(v) > m * m
LengthLT(v, m) ==
    /\ ~v.nan
    /\ Abs(v.x) < m
    /\ Abs(v.y) < m
    /\ LenSq(v) < m * m

\* v.try_normalize() is Some: the length is finite and not zero
Normalizable(v) == ~v.nan /\ (v.x # 0 \/ v.y # 0)

\* v.normalize() * m.  The zero vector has no direction: 0 * (1 / 0) is NaN.
\* The lattice point is taken on the short side (toward zero) or on the long
\* side (away from zero) of the exact product.
NormalizeTimes(v, m, away) ==
    IF v.nan \/ ~Normalizable(v) THEN NaNVec
    ELSE LET s == Shrink(v)
             n == LenSq(s)
         IN  IF away
             THEN Vec(AwayDiv(s.x * m, FloorSqrt(n)), AwayDiv(s.y * m, FloorSqrt(n)))
             ELSE Vec(TruncDiv(s.x * m, CeilSqrt(n)), TruncDiv(s.y * m, CeilSqrt(n)))

\* v.normalize(): a unit vector is kept with 32 lattice steps to the unit
Direction(v) == NormalizeTimes(v, 32, FALSE)

\* a vector too long for the products of the angle test, shrunk likewise
ShrinkTo(v, lim) ==
    LET k == (Max(Abs(v.x), Abs(v.y)) \div lim) + 1
    IN  IF Max(Abs(v.x), Abs(v.y)) <= lim THEN v
        ELSE Vec(TruncDiv(v.x, k), TruncDiv(v.y, k))

\* a.angle_between(b) < VIEW_ANGLE, VIEW_ANGLE = PI / 3: the cosine
\* a.b / (|a| |b|) is above 1/2.  With a zero (or NaN) operand the angle is
\* NaN and the comparison is false.
InViewAngle(a, b) ==
    /\ Normalizable(a)
    /\ Normalizable(b)
    /\ LET sa == ShrinkTo(a, 128)
           sb == ShrinkTo(b, 128)
       IN  /\ Dot(sa, sb) > 0
           /\ 4 * Dot(sa, sb) * Dot(sa, sb) > LenSq(sa) * LenSq(sb)

\* --------------------------------------------------------------- entities
\* setup spawns the camera first, then the boids
Camera == 0
Boids == 1 .. NumBoids
\* the entities with a Transform, in spawn order: Query<(&Transform, Entity)>
TransformEntities == <<Camera>> \o [i \in 1 .. NumBoids |-> i]
\* the entities with a Velocity and a Transform, in spawn order
Birds == [i \in 1 .. NumBoids |-> i]

\* the resource inserted by main; draw_ui is the only writer and is not modelled
BoidArgs == [cohesion |-> 1, alignment |-> 1, seperation |-> 1, range |-> 100]

\* Transform::from_xyz(rng.sample(xrange), rng.sample(yrange), 0.0): the
\* samples the model starts the boids from.  Layout k puts boid b on spot
\* k + b - 1, counted round the list.
Spots == <<Vec(145, 145), Vec(-60, -60), Vec(-100, -100), Vec(195, 20)>>
Layouts == 1 .. Len(Spots)
Placement(k) == [b \in Boids |-> Spots[((k + b - 2) % Len(Spots)) + 1]]
InitialVelocity == Vec(10, 10)
\* Transform's default rotation is the identity: the boid points along Vec3::Y
InitialHeading == Vec(0, 32)

\* time.delta_secs(): zero in the first frame, a fraction of a second after it
ZeroDt == [n |-> 0, d |-> 1]
FrameDts == {[n |-> 1, d |-> 4]}

Systems == {"update_pos", "update_velocity", "boid_rules", "avoid_edges"}

VARIABLES
    pos,              \* Transform.translation of every boid
    rot,              \* Transform.rotation of every boid, as the heading it turns Vec3::Y to
    vel,              \* Velocity of every boid
    tree,             \* the SpatialTree resource: per boid the indexed position, if any
    events_a,         \* Events<UpdateVelocity>: the older buffer
    events_b,         \* Events<UpdateVelocity>: the buffer that send() appends to
    event_count,      \* Events<UpdateVelocity>: events sent so far
    last_event_count, \* update_velocity's EventReader cursor
    dt,               \* Time: this frame's delta
    tick,             \* frames started
    ran,              \* the systems that have run in this frame
    pos0,             \* history: pos at the start of the frame
    vel0,             \* history: vel at the start of the frame
    hist              \* history: per event id, who sent it for whom, when, and when it was read

vars == <<pos, rot, vel, tree, events_a, events_b, event_count, last_event_count,
          dt, tick, ran, pos0, vel0, hist>>

NoEntry == [has |-> FALSE, p |-> ZERO]

Init ==
    /\ pos \in {Placement(k) : k \in Layouts}
    /\ rot = [b \in Boids |-> InitialHeading]
    /\ vel = [b \in Boids |-> InitialVelocity]
    /\ tree = [b \in Boids |-> NoEntry]
    /\ events_a = <<>>
    /\ events_b = <<>>
    /\ event_count = 0
    /\ last_event_count = 0
    /\ dt = ZeroDt
    /\ tick = 0
    /\ ran = Systems \cup {"update_tree"}
    /\ pos0 = pos
    /\ vel0 = vel
    /\ hist = <<>>

\* ------------------------------------------------------------- the frame
\* First: the clock advances and Events::update swaps the two buffers, which
\* drops what was sent two frames ago.
BeginTick ==
    /\ Systems \subseteq ran
    /\ tick < MaxTick
    /\ tick' = tick + 1
    /\ dt' \in (IF tick = 0 THEN {ZeroDt} ELSE FrameDts)
    /\ events_a' = events_b
    /\ events_b' = <<>>
    /\ ran' = {}
    /\ pos0' = pos
    /\ vel0' = vel
    /\ UNCHANGED <<pos, rot, vel, tree, event_count, last_event_count, hist>>

\* EventWriter::send of a batch of (entity, delta) pairs by system src
Send(batch, src) ==
    /\ events_b' = events_b \o
          [i \in 1 .. Len(batch) |->
              [id |-> event_count + i, ent |-> batch[i].ent, delta |-> batch[i].delta]]
    /\ event_count' = event_count + Len(batch)
    /\ hist' = hist \o
          [i \in 1 .. Len(batch) |->
              [ent |-> batch[i].ent, src |-> src, tick |-> tick, reads |-> <<>>]]

\* ------------------------------------------------------------- update_pos
\* Integrate with the factor 0.5 left out: the whole Euler step
IntegrateFullStep(p, v, t) == VAdd(p, VScale(v, t.n, t.d))

\* transform.translation += velocity.0 * 0.5 * time.delta_secs()
Integrate(p, v, t) == VAdd(p, VScale(v, t.n, 2 * t.d))

UpdatePos ==
    /\ "update_pos" \notin ran
    /\ ran' = ran \cup {"update_pos"}
    /\ pos' = [b \in Boids |-> Integrate(pos[b], vel[b], dt)]
    /\ UNCHANGED <<rot, vel, tree, events_a, events_b, event_count, last_event_count,
                   dt, tick, pos0, vel0, hist>>

\* -------------------------------------------------------- update_velocity
\* bird.0.0 += vel; bird.0.0 -= friction * time.delta_secs()
Slowed(v, delta, t) ==
    LET added == VAdd(v, delta)
        friction == VScale(added, 1, 10)
    IN  VSub(added, VScale(friction, t.n, t.d))

\* the two speed tests, one after the other
Clamp(v) ==
    LET capped == IF LengthGT(v, MAX_VELOCITY)
                  THEN NormalizeTimes(v, MAX_VELOCITY, FALSE)
                  ELSE v
    IN  IF LengthLT(capped, MIN_VELOCITY)
        THEN NormalizeTimes(capped, MIN_VELOCITY, TRUE)
        ELSE capped

\* the body of the loop for one event of a known bird
ApplyDelta(v, delta, t) == Clamp(Slowed(v, delta, t))

\* Quat::from_rotation_arc(Vec3::Y, norm) when try_normalize gives a norm
Orient(r, v) == IF Normalizable(v) THEN Direction(v) ELSE r

\* birds.get_mut(entity) is Ok: the entity has a Velocity and a Transform
KnownBird(e) == e \in Boids

\* for UpdateVelocity(entity, vel) in ev.read(): st holds the velocities and
\* rotations so far and n, the events the iterator has handed out.  An
\* entity that is no bird ends the system (return), with the events behind
\* it still unread.
RECURSIVE ReadEvents(_, _, _, _)
ReadEvents(unread, i, t, st) ==
    IF i > Len(unread) THEN st
    ELSE LET e == unread[i]
         IN  IF ~KnownBird(e.ent)
             THEN [st EXCEPT !.n = i]
             ELSE LET v == ApplyDelta(st.vel[e.ent], e.delta, t)
                  IN  ReadEvents(unread, i + 1, t,
                          [vel |-> [st.vel EXCEPT ![e.ent] = v],
                           rot |-> [st.rot EXCEPT ![e.ent] = Orient(@, v)],
                           n |-> i])

\* ev.read(): the events of both buffers that the cursor has not passed
Unread == SelectSeq(events_a \o events_b, LAMBDA e : e.id > last_event_count)

UpdateVelocity ==
    /\ "update_velocity" \notin ran
    /\ ran' = ran \cup {"update_velocity"}
    /\ LET st == ReadEvents(Unread, 1, dt, [vel |-> vel, rot |-> rot, n |-> 0])
       IN  /\ vel' = st.vel
           /\ rot' = st.rot
           /\ last_event_count' = event_count - Len(Unread) + st.n
           /\ hist' = [id \in 1 .. Len(hist) |->
                         IF \E i \in 1 .. st.n : Unread[i].id = id
                         THEN [hist[id] EXCEPT !.reads = Append(@, tick)]
                         ELSE hist[id]]
    /\ UNCHANGED <<pos, tree, events_a, events_b, event_count, dt, tick, pos0, vel0>>

\* ------------------------------------------------------------ avoid_edges
\* the camera's Transform stays where Camera2d puts it
Translation(e, P) == IF e = Camera THEN ZERO ELSE P[e]

\* (window.width() / 2.0 - x.abs()).min(window.height() / 2.0 - y.abs())
DistanceToEdge(p) ==
    Min(WindowWidth \div 2 - Abs(p.x), WindowHeight \div 2 - Abs(p.y))

\* (Vec3::ZERO - translation) / (distance_to_edge.max(0.01) / 40.0); a NaN
\* distance is not below BORDER
AvoidDelta(p) ==
    IF p.nan THEN ZERO
    ELSE LET d == DistanceToEdge(p)
         IN  IF d < BORDER
             THEN IF d >= 1 THEN VScale(VSub(ZERO, p), 40, d)
                            ELSE VScale(VSub(ZERO, p), 4000, 1)
             ELSE ZERO

\* AvoidBatch with send() moved into the branch that is taken near an edge:
\* an entity away from the edges gets no record
AvoidBatchNearEdgeOnly(P, t) ==
    SelectSeq([i \in 1 .. Len(TransformEntities) |->
                  [ent |-> TransformEntities[i],
                   delta |-> VScale(AvoidDelta(Translation(TransformEntities[i], P)), t.n, t.d)]],
              LAMBDA e : DistanceToEdge(Translation(e.ent, P)) < BORDER)

\* the events of one run of avoid_edges over positions P: one for every
\* entity of the query
AvoidBatch(P, t) ==
    [i \in 1 .. Len(TransformEntities) |->
        [ent |-> TransformEntities[i],
         delta |-> VScale(AvoidDelta(Translation(TransformEntities[i], P)), t.n, t.d)]]

AvoidEdges ==
    /\ "avoid_edges" \notin ran
    /\ ran' = ran \cup {"avoid_edges"}
    /\ Send(AvoidBatch(pos, dt), "avoid_edges")
    /\ UNCHANGED <<pos, rot, vel, tree, events_a, last_event_count, dt, tick, pos0, vel0>>

\* ------------------------------------------------------------- boid_rules
RECURSIVE VSum(_, _)
VSum(first, s) == IF s = <<>> THEN first ELSE VSum(VAdd(first, Head(s)), Tail(s))

\* average(first, it): the fold starts from first and counts the items
Average(first, s) ==
    IF Len(s) = 0 THEN VSum(first, s) ELSE VScale(VSum(first, s), 1, Len(s))

MapSeq(s, F(_)) == [i \in 1 .. Len(s) |-> F(s[i])]

\* tree.within_distance(my_pos, range): the (position, entity) pairs of index
\* T within r of c; a NaN position is within no distance
WithinDistance(T, c, r) ==
    SelectSeq([i \in 1 .. NumBoids |-> [p |-> T[i].p, ent |-> i, has |-> T[i].has]],
              LAMBDA e : /\ e.has
                         /\ ~e.p.nan
                         /\ Abs(e.p.x - c.x) <= r
                         /\ Abs(e.p.y - c.y) <= r
                         /\ LenSq(VSub(e.p, c)) <= r * r)

\* the three iterators that boid_rules averages, for the bird my at my_pos
\* heading my_dir
CohesionItems(my_pos, my_dir, T) ==
    SelectSeq(WithinDistance(T, my_pos, BoidArgs.range),
              LAMBDA e : InViewAngle(VSub(e.p, my_pos), my_dir))

AlignItems(my, my_pos, my_dir, T) ==
    SelectSeq(WithinDistance(T, my_pos, BoidArgs.range),
              LAMBDA e : InViewAngle(VSub(e.p, my_pos), my_dir) /\ e.ent # my)

\* .map(|(p, _)| my_pos - p) comes first, so the filter's p is my_pos - p
SeperationItems(my_pos, my_dir, T) ==
    SelectSeq(MapSeq(WithinDistance(T, my_pos, BoidArgs.range),
                     LAMBDA e : [p |-> VSub(my_pos, e.p), ent |-> e.ent]),
              LAMBDA e : InViewAngle(VSub(e.p, my_pos), my_dir))

\* v / (v.length().max(0.001) / range)
Repel(v) ==
    IF LenSq(v) = 0 THEN ZERO ELSE VScale(v, BoidArgs.range, FloorSqrt(LenSq(v)))

CohesionDelta(my_pos, my_dir, T) ==
    VSub(Average(ZERO, MapSeq(CohesionItems(my_pos, my_dir, T), LAMBDA e : e.p)), my_pos)

AlignDelta(my, my_pos, my_dir, T, V) ==
    Average(ZERO, MapSeq(AlignItems(my, my_pos, my_dir, T), LAMBDA e : V[e.ent]))

SeperationDelta(my_pos, my_dir, T) ==
    Average(ZERO, MapSeq(SeperationItems(my_pos, my_dir, T), LAMBDA e : Repel(e.p)))

\* del * time.delta_secs() for the bird my, over positions P, velocities V, index T
RulesDelta(my, P, V, T, t) ==
    LET my_dir == Direction(V[my])
        del == VAdd(VAdd(VScale(CohesionDelta(P[my], my_dir, T), BoidArgs.cohesion, 1),
                         VScale(AlignDelta(my, P[my], my_dir, T, V), BoidArgs.alignment, 1)),
                    VScale(SeperationDelta(P[my], my_dir, T), BoidArgs.seperation, 1))
    IN  VScale(del, t.n, t.d)

\* the events of one run of boid_rules: a bird whose velocity has no
\* direction is passed over (continue)
RulesBatch(P, V, T, t) ==
    MapSeq(SelectSeq(Birds, LAMBDA b : Normalizable(V[b])),
           LAMBDA b : [ent |-> b, delta |-> RulesDelta(b, P, V, T, t)])

BoidRules ==
    /\ "boid_rules" \notin ran
    /\ ran' = ran \cup {"boid_rules"}
    /\ Send(RulesBatch(pos, vel, tree, dt), "boid_rules")
    /\ UNCHANGED <<pos, rot, vel, tree, events_a, last_event_count, dt, tick, pos0, vel0>>

\* ------------------------------------------------- the spatial index plugin
\* AutomaticUpdate::<Boid>: every 300 ms the tree is rebuilt from the boids'
\* positions, after the frame's Update systems
UpdateTree ==
    /\ Systems \subseteq ran
    /\ "update_tree" \notin ran
    /\ ran' = ran \cup {"update_tree"}
    /\ tree' = [b \in Boids |-> [has |-> TRUE, p |-> pos[b]]]
    /\ UNCHANGED <<pos, rot, vel, events_a, events_b, event_count, last_event_count,
                   dt, tick, pos0, vel0, hist>>

Next ==
    \/ BeginTick
    \/ UpdatePos
    \/ UpdateVelocity
    \/ BoidRules
    \/ AvoidEdges
    \/ UpdateTree

Spec == Init /\ [][Next]_vars

\* ================================================================= claims
\* system s runs in this step
RanStep(s) == s \notin ran /\ s \in ran'
\* the frame's Update systems have all run
FrameDone == tick >= 1 /\ Systems \subseteq ran
EventIds == 1 .. Len(hist)
\* update_velocity has applied a delta to bird b
Updated(b) == \E id \in EventIds : hist[id].ent = b /\ hist[id].reads # <<>>
SpeedInBounds(v) ==
    /\ ~v.nan
    /\ ~LengthLT(v, MIN_VELOCITY)
    /\ ~LengthGT(v, MAX_VELOCITY)

\* C1 (as claimed): every agent that update_velocity has applied a delta to
\* has MIN_VELOCITY <= |velocity| <= MAX_VELOCITY, whatever the deltas were,
\* also when a delta brought the velocity to exactly zero.
C1_SpeedBound == \A b \in Boids : Updated(b) => SpeedInBounds(vel[b])

\* C3 (as claimed): every UpdateVelocity record is read exactly once by
\* update_velocity and in the frame that sent it: never twice, never in a
\* later frame, and not left unread once the frame's systems have all run.
C3_ConsumedOnceInTick ==
    \A id \in EventIds :
        /\ Len(hist[id].reads) <= 1
        /\ \A i \in 1 .. Len(hist[id].reads) : hist[id].reads[i] = hist[id].tick
        /\ (hist[id].tick < tick \/ FrameDone) => hist[id].reads # <<>>

\* C4 (as claimed): a record for an entity that is no known agent is dropped
\* and changes nothing, and every other unread record, before or after it, is
\* applied as if that record had not been in the queue.
KnownOnly(unread) == SelectSeq(unread, LAMBDA e : KnownBird(e.ent))
C4_UnknownDropped ==
    [][RanStep("update_velocity") =>
          LET st == ReadEvents(KnownOnly(Unread), 1, dt,
                               [vel |-> vel, rot |-> rot, n |-> 0])
          IN  vel' = st.vel /\ rot' = st.rot]_vars

\* C5 (as claimed): no agent's velocity is ever NaN, and an unread record
\* that brings its agent's velocity to exactly zero (after the delta and the
\* friction) leaves that velocity at zero and the orientation as it was.
C5_ZeroStaysZero ==
    /\ \A b \in Boids : ~vel[b].nan
    /\ \A i \in 1 .. Len(Unread) :
          LET e == Unread[i]
          IN  (KnownBird(e.ent) /\ Slowed(vel[e.ent], e.delta, dt) = ZERO) =>
                 /\ ApplyDelta(vel[e.ent], e.delta, dt) = ZERO
                 /\ Orient(rot[e.ent], ApplyDelta(vel[e.ent], e.delta, dt)) = rot[e.ent]

\* the records that this step sends
NewBatch == SubSeq(events_b', Len(events_b) + 1, Len(events_b'))
Unnumbered(batch) == MapSeq(batch, LAMBDA e : [ent |-> e.ent, delta |-> e.delta])

\* C2 (as claimed): whatever the order of the frame's systems, the records
\* that boid_rules and avoid_edges send are the ones computed from the
\* positions and velocities the frame started with.
C2_TwoPhase ==
    [][/\ RanStep("boid_rules") =>
             Unnumbered(NewBatch) = RulesBatch(pos0, vel0, tree, dt)
       /\ RanStep("avoid_edges") =>
             Unnumbered(NewBatch) = AvoidBatch(pos0, dt)]_vars

Ents(items) == {items[i].ent : i \in 1 .. Len(items)}
\* boid_rules is still to run in this frame, on the state as it is
RulesPending == tick >= 1 /\ "boid_rules" \notin ran
Heading(b) == Direction(vel[b])
\* the indexed entries of other agents within view range of bird b
OthersInRange(b) == Ents(WithinDistance(tree, pos[b], BoidArgs.range)) \ {b}

\* C6 (as claimed): a bird with a heading that has no other agent within
\* view range and an empty view cone gets zero cohesion, alignment and
\* separation deltas, so the delta of its record is zero.
C6_EmptyNeighborhood ==
    \A b \in Boids :
        (/\ RulesPending
         /\ Normalizable(vel[b])
         /\ OthersInRange(b) = {}
         /\ CohesionItems(pos[b], Heading(b), tree) = <<>>) =>
            /\ CohesionDelta(pos[b], Heading(b), tree) = ZERO
            /\ AlignDelta(b, pos[b], Heading(b), tree, vel) = ZERO
            /\ SeperationDelta(pos[b], Heading(b), tree) = ZERO
            /\ RulesDelta(b, pos, vel, tree, dt) = ZERO

\* C7 (as claimed): for a bird b, another agent within view range enters the
\* cohesion, the alignment and the separation average exactly when the angle
\* between its offset from b and b's heading is below VIEW_ANGLE.
C7_ViewCone ==
    \A b \in Boids : (RulesPending /\ Normalizable(vel[b])) =>
        \A n \in OthersInRange(b) :
            LET seen == InViewAngle(VSub(tree[n].p, pos[b]), Heading(b))
            IN  /\ seen <=> n \in Ents(CohesionItems(pos[b], Heading(b), tree))
                /\ seen <=> n \in Ents(AlignItems(b, pos[b], Heading(b), tree))
                /\ seen <=> n \in Ents(SeperationItems(pos[b], Heading(b), tree))

\* C9 (as claimed): a bird's own index entry, fresh or stale, enters none of
\* its cohesion, alignment and separation averages.
C9_SelfExcluded ==
    \A b \in Boids : (RulesPending /\ Normalizable(vel[b])) =>
        /\ b \notin Ents(CohesionItems(pos[b], Heading(b), tree))
        /\ b \notin Ents(AlignItems(b, pos[b], Heading(b), tree))
        /\ b \notin Ents(SeperationItems(pos[b], Heading(b), tree))

\* the records sent in this frame by system src for entity e
SentInFrame(e, src) ==
    {id \in EventIds : hist[id].tick = tick /\ hist[id].ent = e /\ hist[id].src = src}
\* the records that this step sends for entity e
NewFor(e) == Cardinality({i \in 1 .. Len(NewBatch) : NewBatch[i].ent = e})

\* C8 (as claimed): when the frame's systems have run, exactly one record
\* has been sent in the frame for each agent.
C8_OneRecordPerAgent ==
    FrameDone =>
        \A b \in Boids :
            Cardinality(SentInFrame(b, "avoid_edges") \cup SentInFrame(b, "boid_rules")) = 1

\* C8 (amended): the two steering systems send separately.  A run of
\* avoid_edges sends exactly one record for every entity with a Transform,
\* each agent and the camera, with the edge-avoidance delta of its position;
\* a run of boid_rules sends exactly one record for each agent whose velocity
\* has a direction, with the cohesion, alignment and separation delta, and
\* none for any other entity.
C8_RecordPerSystem ==
    [][/\ RanStep("avoid_edges") =>
             /\ \A e \in Boids \cup {Camera} : NewFor(e) = 1
             /\ \A i \in 1 .. Len(NewBatch) :
                   NewBatch[i].delta =
                      VScale(AvoidDelta(Translation(NewBatch[i].ent, pos)), dt.n, dt.d)
       /\ RanStep("boid_rules") =>
             /\ \A b \in Boids : NewFor(b) = IF Normalizable(vel[b]) THEN 1 ELSE 0
             /\ NewFor(Camera) = 0
             /\ \A i \in 1 .. Len(NewBatch) :
                   NewBatch[i].delta = RulesDelta(NewBatch[i].ent, pos, vel, tree, dt)]_vars

\* C8 witness: a frame with a positive delta time is through, and an agent
\* has got two records in it, one from each system, the avoid_edges one with
\* a delta that is not zero.
C8_Witness ==
    /\ FrameDone
    /\ dt.n > 0
    /\ \E b \in Boids :
          /\ Cardinality(SentInFrame(b, "boid_rules")) = 1
          /\ \E id \in SentInFrame(b, "avoid_edges") :
                \E i \in 1 .. Len(events_b) :
                   events_b[i].id = id /\ events_b[i].delta # ZERO

IsTruncatedQuotient(a, num, den) ==
    /\ den * Abs(a) <= Abs(num)
    /\ Abs(num) < den * (Abs(a) + 1)
    /\ a * num >= 0

====
